---- MODULE Spec2Model ----
(***************************************************************************)
(* State-machine model of the tools of the repository:                     *)
(*   compress_mpi.cpp    (processVariable, main)                           *)
(*   decompress_mpi.cpp  (computeMetrics, analyzeVariable, main)           *)
(*   bin.cpp             (the reshaping of convert_variable_to_bin)        *)
(* Every worker (MPI rank) is a process with its own program counter.      *)
(* MPI_Barrier and MPI_Allreduce are rendezvous: a worker that has issued  *)
(* one stays in it until every worker of the group is in the same one.     *)
(* Element values are integers, so the double-precision sums of the code   *)
(* are exact here; a quotient a/b of the code is the pair [num, den].      *)
(***************************************************************************)
EXTENDS Integers, Sequences, FiniteSets, TLC

\* ------------------------------------------------------------------ bounds
MaxWorkers == 2
MaxSteps == 2
MaxExtent == 4
MaxLen == 2

\* ------------------------------------------------------- program constants
\* analyzeVariable's default argument: main never passes another value
maxSteps == -1

VARIABLES
  tool,            \* what runs: "analyze", "compress", "bin", "plan", "metrics"
  size,            \* MPI_Comm_size
  decompDim,       \* argv[3]
  targetVars,      \* the variable names of the command line
  allVars,         \* name -> type at step 0 of the input file ("none": not there)
  nIn,             \* number of steps of the input / uncompressed file
  nCmp,            \* number of steps of the compressed file (analysis tool)
  file,            \* the input / uncompressed file: name -> per step, its status
  lateVars,        \* name -> type of a variable that step 0 lacks, where it appears
  compressor,      \* argv[4] of the compression tool
  fileIn,          \* the current variable in the input file: per step, its status
  fileCmp,         \* the current variable in the compressed file: per step, its mode
  pc,              \* per worker: position in the code
  vi,              \* per worker: index of the variable loop of main
  step,            \* per worker: the local `step` counter
  successfulSteps, \* per worker (analysis tool)
  readerUncomp,    \* per worker: the engine's state [pos, inStep, closed]
  readerComp,
  dataUncomp,      \* per worker: local buffers of the current step
  dataComp,
  localSize,
  localMetrics,
  global,          \* per worker: the four allreduce results and what is derived
  totalLinf,
  reader,          \* compression tool: per worker engine state
  writer,          \* compression tool: per worker [steps, inStep, closed, puts]
  declared,        \* compression tool: per worker, DefineVariable calls so far
  data,            \* compression tool: per worker local buffer
  outFile,         \* compression tool: per worker, its blocks in the output file
  fnIn,            \* input of a pure function under test
  fnOut,           \* its outputs so far
  trace            \* per worker: the stream and collective calls issued, in order

inputVars == <<tool, size, decompDim, targetVars, allVars, nIn, nCmp, file, lateVars,
               compressor>>
fileVars == <<fileIn, fileCmp>>
analyzeVars == <<successfulSteps, readerUncomp, readerComp, dataUncomp, dataComp,
                 localSize, localMetrics, global, totalLinf>>
compressVars == <<reader, writer, declared, data, outFile>>
fnVars == <<fnIn, fnOut>>
vars == <<inputVars, fileVars, pc, vi, step, analyzeVars, compressVars, fnVars, trace>>

\* ----------------------------------------------------------------- helpers
Workers == 0 .. (size - 1)
Names == {"u", "v"}
Absent == [present |-> FALSE, shape |-> <<>>]
Present(s) == [present |-> TRUE, shape |-> s]
\* the shapes a variable takes in the files of the process models
Shapes == {<<1>>, <<3, 2>>}
Statuses == {Absent} \cup {Present(s) : s \in Shapes}
\* the compressed copy of a variable is exact or lossy; a step may lack it ("absent")
CompModes == {"exact", "lossy"}
\* step 0 of the input file: the type of each name ("none": the name is not there)
FileHeads ==
  {[u |-> "double", v |-> "none"], [u |-> "string", v |-> "none"],
   [u |-> "none", v |-> "double"], [u |-> "none", v |-> "none"]}
DecompDims == {0, 1}
\* the input files of n steps whose step 0 is `head`: a name of the head is there at
\* step 0; a name that is not is there at no step, or from a later step on if `late`
FilesOf(head, n, late) ==
  {f \in [Names -> [1 .. n -> Statuses]] :
     \A a \in Names :
       IF head[a] = "none"
       THEN (n >= 1 => ~f[a][1].present) /\ (late \/ \A k \in 1 .. n : ~f[a][k].present)
       ELSE n >= 1 /\ f[a][1].present}
NoFile(n) == [a \in Names |-> [k \in 1 .. n |-> Absent]]
\* the names that step 0 of file f lacks and a later step holds
LateNames(f, n) == {a \in Names : n >= 1 /\ ~f[a][1].present /\ \E k \in 1 .. n : f[a][k].present}
\* the types of the late names of f, each among `types`; "none" for the other names
LateTypesOf(f, n, types) ==
  {t \in [Names -> types \cup {"none"}] : \A a \in Names : (t[a] = "none") <=> (a \notin LateNames(f, n))}
\* the compressor names of the command lines: one main knows, one it does not
Compressors == {"ZFP", "SZ3"}

Abs(x) == IF x < 0 THEN -x ELSE x
Max(a, b) == IF a > b THEN a ELSE b

RECURSIVE Product(_)
Product(s) == IF s = <<>> THEN 1 ELSE Head(s) * Product(Tail(s))

RECURSIVE SumSeq(_)
SumSeq(s) == IF s = <<>> THEN 0 ELSE Head(s) + SumSeq(Tail(s))

RECURSIVE MaxSeq(_)
MaxSeq(s) == IF s = <<>> THEN 0 ELSE Max(Head(s), MaxSeq(Tail(s)))

IsPrefix(s, t) == Len(s) <= Len(t) /\ SubSeq(t, 1, Len(s)) = s

Ev(op, s, k, box) == [op |-> op, s |-> s, k |-> k, box |-> box]
NoBox == <<>>

\* an engine that was never opened, and one as Open leaves it
NoEngine == [opened |-> FALSE, pos |-> 0, inStep |-> FALSE, closed |-> FALSE]
Engine0 == [opened |-> TRUE, pos |-> 0, inStep |-> FALSE, closed |-> FALSE]

\* BeginStep on an engine over a file of n steps: OK moves to the next step
BeginStepOK(e, n) == e.pos < n
BeginStep(e, n) == IF BeginStepOK(e, n) THEN [e EXCEPT !.pos = @ + 1, !.inStep = TRUE] ELSE e
\* EndStep that leaves the step open
EndStepKept(e) == e
EndStep(e) == [e EXCEPT !.inStep = FALSE]
Close(e) == [e EXCEPT !.closed = TRUE]

\* ------------------------------------------------------- file contents
\* element i (row-major, from 0) of the variable at step k of the original file
ValU(k, i) == (3 * i + 2 * k + 1) % 5
\* the error the lossy transform left on element i
Err(i) == (i % 3) - 1
\* the same element in the compressed file
ValC(mode, k, i) == IF mode = "lossy" THEN ValU(k, i) + Err(i) ELSE ValU(k, i)

\* row-major index in the global array of element j (from 0) of the box
RECURSIVE Lin(_, _, _, _, _, _)
Lin(shape, start, count, j, d, stride) ==
  IF d = 0 THEN 0
  ELSE (start[d] + (j % count[d])) * stride
       + Lin(shape, start, count, j \div count[d], d - 1, stride * shape[d])

\* Get of the selection (start, count): the local buffer, after EndStep
GetU(k, shape, start, count) ==
  [j \in 1 .. Product(count) |-> ValU(k, Lin(shape, start, count, j - 1, Len(shape), 1))]
GetC(mode, k, shape, start, count) ==
  [j \in 1 .. Product(count) |-> ValC(mode, k, Lin(shape, start, count, j - 1, Len(shape), 1))]

\* sizeof(T) of the instantiation main dispatches the type name to
SizeOf(type) ==
  IF type \in {"double", "int64_t", "long long", "uint64_t", "unsigned long long"}
  THEN 8 ELSE 4

\* ================================================== decompress_mpi.cpp
\* AvSupported taking every type name of the file
AvSupportedAny(type) == type # "none"

\* the type names main dispatches on
AvSupported(type) ==
  type \in {"double", "float", "int32_t", "int", "uint32_t", "unsigned int",
            "int64_t", "long long", "uint64_t", "unsigned long long"}

\* decompDim >= ndims
AvInvalidAxis(shape, dim) == dim >= Len(shape)

\* count = shape; count[decompDim] /= size
AvCount(shape, dim, np) == [shape EXCEPT ![dim + 1] = @ \div np]
\* AvStart one box too far
AvStartOffByOne(shape, dim, np, rank) ==
  [i \in 1 .. Len(shape) |-> IF i = dim + 1 THEN (rank + 1) * AvCount(shape, dim, np)[i] ELSE 0]

\* start(ndims, 0); start[decompDim] = rank * count[decompDim]
AvStart(shape, dim, np, rank) ==
  [i \in 1 .. Len(shape) |-> IF i = dim + 1 THEN rank * AvCount(shape, dim, np)[i] ELSE 0]

\* the loop of computeMetrics, from element i on
RECURSIVE MetricsLoop(_, _, _, _)
MetricsLoop(original, compressed, i, acc) ==
  IF i > Len(original) THEN acc
  ELSE LET error == Abs(original[i] - compressed[i])
           origVal == original[i]
       IN MetricsLoop(original, compressed, i + 1,
            [sumSquaredError |-> acc.sumSquaredError + error * error,
             sumSquaredOriginal |-> acc.sumSquaredOriginal + origVal * origVal,
             maxAbsError |-> Max(acc.maxAbsError, error)])

\* the early return of computeMetrics on buffers of different sizes
MetricsMismatch(original, compressed) == Len(original) # Len(compressed)

computeMetrics(original, compressed, originalBytes, compressedBytes) ==
  IF MetricsMismatch(original, compressed)
  THEN [compressionRatio |-> [num |-> 0, den |-> 1], nrmse |-> -1, linf |-> -1,
        originalBytes |-> originalBytes, compressedBytes |-> compressedBytes,
        numElements |-> Len(original)]
  ELSE LET acc == MetricsLoop(original, compressed, 1,
                    [sumSquaredError |-> 0, sumSquaredOriginal |-> 0, maxAbsError |-> 0])
       IN [compressionRatio |-> [num |-> originalBytes, den |-> compressedBytes],
           nrmse |-> acc.sumSquaredError, linf |-> acc.maxAbsError,
           originalBytes |-> originalBytes, compressedBytes |-> compressedBytes,
           numElements |-> Len(original)]

\* the loop of lines 166-170
RECURSIVE LocalSumSquaredOriginal(_, _)
LocalSumSquaredOriginal(buf, i) ==
  IF i > Len(buf) THEN 0 ELSE buf[i] * buf[i] + LocalSumSquaredOriginal(buf, i + 1)

\* MPI_Allreduce with MPI_SUM / MPI_MAX over the workers 0 .. n
RECURSIVE ReduceSum(_, _)
ReduceSum(f, n) == IF n < 0 THEN 0 ELSE f[n] + ReduceSum(f, n - 1)
RECURSIVE ReduceMax(_, _)
ReduceMax(f, n) == IF n = 0 THEN f[0] ELSE Max(f[n], ReduceMax(f, n - 1))


\* ---------------------------------------------------- main and analyzeVariable
NoMetrics == [compressionRatio |-> [num |-> 0, den |-> 1], nrmse |-> 0, linf |-> 0,
              originalBytes |-> 0, compressedBytes |-> 0, numElements |-> 0]
NoGlobal == [pos |-> 0, globalSumSquaredError |-> 0, globalMaxError |-> 0,
             globalElements |-> 0, globalSumSquaredOriginal |-> 0,
             globalNRMSE2 |-> [num |-> 0, den |-> 1],
             globalCompressionRatio |-> [num |-> 0, den |-> 1]]

\* the name main's loop is at, and its type in allVars
VarName(w) == targetVars[vi[w]]
VarType(w) == allVars[VarName(w)]

\* lines 284-295: the probe of step 0, and the exit when the file has no variable
AProbe(w) ==
  /\ tool = "analyze" /\ pc[w] = "probe"
  /\ LET probed == <<Ev("Open", "P", 0, NoBox), Ev("BeginStep", "P", 1, NoBox),
                     Ev("EndStep", "P", 1, NoBox), Ev("Close", "P", 1, NoBox)>>
     IN IF \A v \in Names : allVars[v] = "none"
        THEN /\ pc' = [pc EXCEPT ![w] = "done"]
             /\ trace' = [trace EXCEPT ![w] = @ \o probed \o <<Ev("Finalize", "", 0, NoBox)>>]
        ELSE /\ pc' = [pc EXCEPT ![w] = "nextvar"]
             /\ trace' = [trace EXCEPT ![w] = @ \o probed]
  /\ UNCHANGED <<inputVars, fileVars, vi, step, analyzeVars, compressVars, fnVars>>

\* line 297 and lines 336-350: the end of the variable loop
AFinish(w) ==
  /\ tool = "analyze" /\ pc[w] = "nextvar" /\ vi[w] > Len(targetVars)
  /\ pc' = [pc EXCEPT ![w] = "done"]
  /\ trace' = [trace EXCEPT ![w] = Append(@, Ev("Finalize", "", 0, NoBox))]
  /\ UNCHANGED <<inputVars, fileVars, vi, step, analyzeVars, compressVars, fnVars>>

\* lines 298-302: a name that step 0 of the file does not hold
ANotFound(w) ==
  /\ tool = "analyze" /\ pc[w] = "nextvar" /\ vi[w] <= Len(targetVars)
  /\ VarType(w) = "none"
  /\ vi' = [vi EXCEPT ![w] = @ + 1]
  /\ UNCHANGED <<inputVars, fileVars, pc, step, analyzeVars, compressVars, fnVars, trace>>

\* lines 304-309: the worker enters the barrier before the analysis
AEnterBarrier(w) ==
  /\ tool = "analyze" /\ pc[w] = "nextvar" /\ vi[w] <= Len(targetVars)
  /\ VarType(w) # "none"
  /\ pc' = [pc EXCEPT ![w] = "barrier1"]
  /\ trace' = [trace EXCEPT ![w] = Append(@, Ev("Barrier", VarName(w), 1, NoBox))]
  /\ UNCHANGED <<inputVars, fileVars, vi, step, analyzeVars, compressVars, fnVars>>

\* line 309: MPI_Barrier completes; the readers opened after it see this variable
\* of the uncompressed file, and the compressed file's content for it is fixed
ABarrier1 ==
  /\ tool = "analyze" /\ \A w \in Workers : pc[w] = "barrier1"
  /\ fileIn' = file[VarName(0)]
  /\ \E there \in [1 .. nCmp -> BOOLEAN], mode \in CompModes :
       fileCmp' = [k \in 1 .. nCmp |-> IF there[k] THEN mode ELSE "absent"]
  /\ pc' = [w \in Workers |-> "dispatch"]
  /\ UNCHANGED <<inputVars, vi, step, analyzeVars, compressVars, fnVars, trace>>

\* lines 311-327 with 78-91: the dispatch on the type name; a supported one opens
\* the two readers, another one goes on to the barrier of line 333
ADispatch(w) ==
  /\ tool = "analyze" /\ pc[w] = "dispatch"
  /\ IF AvSupported(VarType(w))
     THEN /\ pc' = [pc EXCEPT ![w] = "while"]
          /\ readerUncomp' = [readerUncomp EXCEPT ![w] = Engine0]
          /\ readerComp' = [readerComp EXCEPT ![w] = Engine0]
          /\ step' = [step EXCEPT ![w] = 0]
          /\ successfulSteps' = [successfulSteps EXCEPT ![w] = 0]
          /\ totalLinf' = [totalLinf EXCEPT ![w] = 0]
          /\ global' = [global EXCEPT ![w] = NoGlobal]
          /\ trace' = [trace EXCEPT ![w] = @ \o <<Ev("Open", "U", 0, NoBox),
                                                  Ev("Open", "C", 0, NoBox)>>]
     ELSE /\ pc' = [pc EXCEPT ![w] = "barrier2"]
          /\ trace' = [trace EXCEPT ![w] = Append(@, Ev("Barrier", VarName(w), 2, NoBox))]
          /\ UNCHANGED <<readerUncomp, readerComp, step, successfulSteps, totalLinf, global>>
  /\ UNCHANGED <<inputVars, fileVars, vi, dataUncomp, dataComp, localSize, localMetrics,
                 compressVars, fnVars>>

\* the step limit of line 95
AvWithinLimit(st) == maxSteps < 0 \/ st < maxSteps

\* lines 93-95: the loop condition, evaluated left to right with short circuit
AWhile(w) ==
  /\ tool = "analyze" /\ pc[w] = "while"
  /\ LET okU == BeginStepOK(readerUncomp[w], nIn)
         okC == okU /\ BeginStepOK(readerComp[w], nCmp)
         go == okC /\ AvWithinLimit(step[w])
         ru == BeginStep(readerUncomp[w], nIn)
         rc == IF okU THEN BeginStep(readerComp[w], nCmp) ELSE readerComp[w]
         evU == <<Ev(IF okU THEN "BeginStep" ELSE "BeginStepEOS", "U", ru.pos, NoBox)>>
         evC == IF okU
                THEN <<Ev(IF okC THEN "BeginStep" ELSE "BeginStepEOS", "C", rc.pos, NoBox)>>
                ELSE <<>>
     IN /\ readerUncomp' = [readerUncomp EXCEPT ![w] = ru]
        /\ readerComp' = [readerComp EXCEPT ![w] = rc]
        /\ trace' = [trace EXCEPT ![w] = @ \o evU \o evC]
        /\ pc' = [pc EXCEPT ![w] = IF go THEN "body" ELSE "close"]
  /\ UNCHANGED <<inputVars, fileVars, vi, step, successfulSteps, dataUncomp, dataComp,
                 localSize, localMetrics, global, totalLinf, compressVars, fnVars>>

\* what InquireVariable finds at the readers' current steps
AvVarUncomp(w) == fileIn[readerUncomp[w].pos]
AvVarComp(w) == fileCmp[readerComp[w].pos]
AvMissing(w) == ~AvVarUncomp(w).present \/ AvVarComp(w) = "absent"

\* AvEndBoth with the two calls inside the `if (rank == 0)` of the message
AvEndBothRank0(w) ==
  IF w = 0
  THEN /\ readerUncomp' = [readerUncomp EXCEPT ![w] = EndStep(@)]
       /\ readerComp' = [readerComp EXCEPT ![w] = EndStep(@)]
       /\ trace' = [trace EXCEPT ![w] = @ \o <<Ev("EndStep", "U", readerUncomp[w].pos, NoBox),
                                               Ev("EndStep", "C", readerComp[w].pos, NoBox)>>]
  ELSE UNCHANGED <<readerUncomp, readerComp, trace>>

\* AvEndBoth without readerComp.EndStep()
AvEndUncompOnly(w) ==
  /\ readerUncomp' = [readerUncomp EXCEPT ![w] = EndStep(@)]
  /\ trace' = [trace EXCEPT ![w] = Append(@, Ev("EndStep", "U", readerUncomp[w].pos, NoBox))]
  /\ UNCHANGED readerComp

\* the two EndStep calls of the skipping branches
AvEndBoth(w) ==
  /\ readerUncomp' = [readerUncomp EXCEPT ![w] = EndStep(@)]
  /\ readerComp' = [readerComp EXCEPT ![w] = EndStep(@)]
  /\ trace' = [trace EXCEPT ![w] = @ \o <<Ev("EndStep", "U", readerUncomp[w].pos, NoBox),
                                          Ev("EndStep", "C", readerComp[w].pos, NoBox)>>]

\* lines 97-106: the variable is missing in one of the files at this step
AMissing(w) ==
  /\ tool = "analyze" /\ pc[w] = "body"
  /\ AvMissing(w)
  /\ AvEndBoth(w)
  /\ pc' = [pc EXCEPT ![w] = "while"]
  /\ UNCHANGED <<inputVars, fileVars, vi, step, successfulSteps, dataUncomp, dataComp,
                 localSize, localMetrics, global, totalLinf, compressVars, fnVars>>

\* lines 120-128: the decomposition axis is no axis of the shape
AInvalidAxis(w) ==
  /\ tool = "analyze" /\ pc[w] = "body"
  /\ ~AvMissing(w)
  /\ AvInvalidAxis(AvVarUncomp(w).shape, decompDim)
  /\ AvEndBoth(w)
  /\ step' = [step EXCEPT ![w] = @ + 1]
  /\ pc' = [pc EXCEPT ![w] = "while"]
  /\ UNCHANGED <<inputVars, fileVars, vi, successfulSteps, dataUncomp, dataComp,
                 localSize, localMetrics, global, totalLinf, compressVars, fnVars>>

\* lines 130-149: decomposition, selection, the two Get and the two EndStep
ARead(w) ==
  /\ tool = "analyze" /\ pc[w] = "body"
  /\ ~AvMissing(w)
  /\ ~AvInvalidAxis(AvVarUncomp(w).shape, decompDim)
  /\ LET shape == AvVarUncomp(w).shape
         count == AvCount(shape, decompDim, size)
         start == AvStart(shape, decompDim, size, w)
         kU == readerUncomp[w].pos
         kC == readerComp[w].pos
     IN /\ localSize' = [localSize EXCEPT ![w] = Product(count)]
        /\ dataUncomp' = [dataUncomp EXCEPT ![w] = GetU(kU, shape, start, count)]
        /\ dataComp' = [dataComp EXCEPT ![w] = GetC(AvVarComp(w), kC, shape, start, count)]
        /\ readerUncomp' = [readerUncomp EXCEPT ![w] = EndStep(@)]
        /\ readerComp' = [readerComp EXCEPT ![w] = EndStep(@)]
        /\ trace' = [trace EXCEPT ![w] = @ \o
             <<Ev("SetSelection", "U", kU, <<start, count>>),
               Ev("SetSelection", "C", kC, <<start, count>>),
               Ev("Get", "U", kU, <<start, count>>),
               Ev("Get", "C", kC, <<start, count>>),
               Ev("EndStep", "U", kU, NoBox), Ev("EndStep", "C", kC, NoBox)>>]
  /\ pc' = [pc EXCEPT ![w] = "local"]
  /\ UNCHANGED <<inputVars, fileVars, vi, step, successfulSteps, localMetrics, global,
                 totalLinf, compressVars, fnVars>>

\* lines 152-162: the local metrics of the two buffers, the four accumulators of
\* this iteration created as 0 (lines 157-160), and the call of the first
\* MPI_Allreduce, which nothing guards
ALocal(w) ==
  /\ tool \in {"analyze", "metrics"} /\ pc[w] = "local"
  /\ LET originalBytes == localSize[w] * SizeOf(VarType(w))
         compressedBytes == (localSize[w] * SizeOf(VarType(w))) \div 2
     IN localMetrics' = [localMetrics EXCEPT ![w] =
          computeMetrics(dataUncomp[w], dataComp[w], originalBytes, compressedBytes)]
  /\ global' = [global EXCEPT ![w] = NoGlobal]
  /\ trace' = [trace EXCEPT ![w] =
       Append(@, Ev("Allreduce", "sumSquaredError", readerUncomp[w].pos, NoBox))]
  /\ pc' = [pc EXCEPT ![w] = "ar1"]
  /\ UNCHANGED <<inputVars, fileVars, vi, step, successfulSteps, readerUncomp, readerComp,
                 dataUncomp, dataComp, localSize, totalLinf, compressVars, fnVars>>

ArPc(k) == CASE k = 1 -> "ar1" [] k = 2 -> "ar2" [] k = 3 -> "ar3" [] k = 4 -> "ar4"
ArName(k) == CASE k = 1 -> "sumSquaredError" [] k = 2 -> "maxError"
               [] k = 3 -> "elements" [] k = 4 -> "sumSquaredOriginal"

\* what worker w hands to the k-th MPI_Allreduce of lines 162-171
ArLocal(k, w) ==
  CASE k = 1 -> localMetrics[w].nrmse
    [] k = 2 -> localMetrics[w].linf
    [] k = 3 -> localSize[w]
    [] k = 4 -> LocalSumSquaredOriginal(dataUncomp[w], 1)

\* ArResult with MPI_SUM in all four calls
ArResultAllSum(k) == ReduceSum([w \in Workers |-> ArLocal(k, w)], size - 1)

\* its result: MPI_SUM, but MPI_MAX for the second
ArResult(k) ==
  LET f == [w \in Workers |-> ArLocal(k, w)]
  IN IF k = 2 THEN ReduceMax(f, size - 1) ELSE ReduceSum(f, size - 1)

\* AvDerived with rmse and norm exchanged in the quotient
AvDerivedSwapped(g, type) ==
  LET totalOrigBytes == g.globalElements * SizeOf(type)
      totalCompBytes == totalOrigBytes \div 2
  IN [g EXCEPT
        !.globalNRMSE2 = IF g.globalElements > 0 /\ g.globalSumSquaredOriginal > 0
                         THEN [num |-> g.globalSumSquaredOriginal,
                               den |-> g.globalSumSquaredError]
                         ELSE [num |-> 0, den |-> 1],
        !.globalCompressionRatio = [num |-> totalOrigBytes, den |-> totalCompBytes]]

\* lines 173-179: what is derived from the four results (NRMSE as its square)
AvDerived(g, type) ==
  LET totalOrigBytes == g.globalElements * SizeOf(type)
      totalCompBytes == totalOrigBytes \div 2
  IN [g EXCEPT
        !.globalNRMSE2 = IF g.globalElements > 0 /\ g.globalSumSquaredOriginal > 0
                         THEN [num |-> g.globalSumSquaredError,
                               den |-> g.globalSumSquaredOriginal]
                         ELSE [num |-> 0, den |-> 1],
        !.globalCompressionRatio = [num |-> totalOrigBytes, den |-> totalCompBytes]]

\* lines 162-171: the k-th MPI_Allreduce completes on every worker, and each goes
\* on into the next one; after the fourth, lines 173-196
AAllreduce(k) ==
  /\ tool \in {"analyze", "metrics"} /\ \A w \in Workers : pc[w] = ArPc(k)
  /\ LET r == ArResult(k)
         set(g, w) ==
           CASE k = 1 -> [g EXCEPT !.globalSumSquaredError = r]
             [] k = 2 -> [g EXCEPT !.globalMaxError = r]
             [] k = 3 -> [g EXCEPT !.globalElements = r]
             [] k = 4 -> AvDerived([g EXCEPT !.globalSumSquaredOriginal = r,
                                             !.pos = readerUncomp[w].pos], VarType(w))
     IN /\ global' = [w \in Workers |-> set(global[w], w)]
        /\ IF k < 4
           THEN /\ pc' = [w \in Workers |-> ArPc(k + 1)]
                /\ trace' = [w \in Workers |->
                     Append(trace[w], Ev("Allreduce", ArName(k + 1), readerUncomp[w].pos, NoBox))]
                /\ UNCHANGED <<step, successfulSteps, totalLinf>>
           ELSE /\ pc' = [w \in Workers |-> "while"]
                /\ step' = [w \in Workers |-> step[w] + 1]
                /\ successfulSteps' = [w \in Workers |-> successfulSteps[w] + 1]
                /\ totalLinf' = [w \in Workers |-> Max(totalLinf[w], global'[w].globalMaxError)]
                /\ UNCHANGED trace
  /\ UNCHANGED <<inputVars, fileVars, vi, readerUncomp, readerComp, dataUncomp, dataComp,
                 localSize, localMetrics, compressVars, fnVars>>

\* lines 199-212 and 329-333: both readers are closed, the worker enters the barrier
AClose(w) ==
  /\ tool = "analyze" /\ pc[w] = "close"
  /\ readerUncomp' = [readerUncomp EXCEPT ![w] = Close(@)]
  /\ readerComp' = [readerComp EXCEPT ![w] = Close(@)]
  /\ trace' = [trace EXCEPT ![w] = @ \o <<Ev("Close", "U", readerUncomp[w].pos, NoBox),
                                          Ev("Close", "C", readerComp[w].pos, NoBox),
                                          Ev("Barrier", VarName(w), 2, NoBox)>>]
  /\ pc' = [pc EXCEPT ![w] = "barrier2"]
  /\ UNCHANGED <<inputVars, fileVars, vi, step, successfulSteps, dataUncomp, dataComp,
                 localSize, localMetrics, global, totalLinf, compressVars, fnVars>>

\* line 333: MPI_Barrier completes, the loop goes to the next name
ABarrier2 ==
  /\ tool = "analyze" /\ \A w \in Workers : pc[w] = "barrier2"
  /\ pc' = [w \in Workers |-> "nextvar"]
  /\ vi' = [w \in Workers |-> vi[w] + 1]
  /\ UNCHANGED <<inputVars, fileVars, step, analyzeVars, compressVars, fnVars, trace>>

\* the numbers of steps of the compressed file: none, fewer than, as many as or
\* more than the uncompressed one
CmpStepCounts == {0, 1, 2}
\* the variable names given on the command line
SingleTargets == {<<"u">>}

\* what no run of a tool touches
IdleCompress ==
  /\ reader = [w \in Workers |-> NoEngine]
  /\ writer = [w \in Workers |-> NoEngine]
  /\ declared = [w \in Workers |-> <<>>]
  /\ data = [w \in Workers |-> <<>>]
  /\ outFile = [w \in Workers |-> <<>>]
IdleAnalyze ==
  /\ successfulSteps = [w \in Workers |-> 0]
  /\ readerUncomp = [w \in Workers |-> NoEngine]
  /\ readerComp = [w \in Workers |-> NoEngine]
  /\ dataUncomp = [w \in Workers |-> <<>>]
  /\ dataComp = [w \in Workers |-> <<>>]
  /\ localSize = [w \in Workers |-> 0]
  /\ localMetrics = [w \in Workers |-> NoMetrics]
  /\ global = [w \in Workers |-> NoGlobal]
  /\ totalLinf = [w \in Workers |-> 0]
IdleFn == fnIn = <<>> /\ fnOut = <<>>

\* the state after MPI_Init and the parsing of the command line (lines 217-249)
InitAnalyze ==
  /\ tool = "analyze"
  /\ size \in 1 .. MaxWorkers
  /\ decompDim \in DecompDims
  /\ targetVars \in SingleTargets
  /\ allVars \in FileHeads
  /\ nIn \in 1 .. MaxSteps
  /\ nCmp \in CmpStepCounts
  /\ file \in FilesOf(allVars, nIn, FALSE)
  /\ lateVars \in LateTypesOf(file, nIn, {"double"})
  /\ compressor = ""
  /\ fileIn = <<>> /\ fileCmp = <<>>
  /\ pc = [w \in Workers |-> "probe"]
  /\ vi = [w \in Workers |-> 1]
  /\ step = [w \in Workers |-> 0]
  /\ IdleAnalyze /\ IdleCompress /\ IdleFn
  /\ trace = [w \in Workers |-> <<>>]

NextAnalyze ==
  \/ \E w \in Workers : AProbe(w)
  \/ \E w \in Workers : AFinish(w)
  \/ \E w \in Workers : ANotFound(w)
  \/ \E w \in Workers : AEnterBarrier(w)
  \/ ABarrier1
  \/ \E w \in Workers : ADispatch(w)
  \/ \E w \in Workers : AWhile(w)
  \/ \E w \in Workers : AMissing(w)
  \/ \E w \in Workers : AInvalidAxis(w)
  \/ \E w \in Workers : ARead(w)
  \/ \E w \in Workers : ALocal(w)
  \/ \E k \in 1 .. 4 : AAllreduce(k)
  \/ \E w \in Workers : AClose(w)
  \/ ABarrier2

SpecAnalyze == InitAnalyze /\ [][NextAnalyze]_vars


\* ==================================================== compress_mpi.cpp
\* the type names main dispatches on
PvSupported(type) ==
  type \in {"double", "float", "int32_t", "int", "uint32_t", "unsigned int",
            "int64_t", "long long", "uint64_t", "unsigned long long"}

\* decompDim >= ndims
PvInvalidAxis(shape, dim) == dim >= Len(shape)

\* PvCount with the division rounded up
PvCountCeil(shape, dim, np) == [shape EXCEPT ![dim + 1] = (@ + np - 1) \div np]

\* count = shape; count[decompDim] /= size
PvCount(shape, dim, np) == [shape EXCEPT ![dim + 1] = @ \div np]
\* start(ndims, 0); start[decompDim] = rank * count[decompDim]
PvStart(shape, dim, np, rank) ==
  [i \in 1 .. Len(shape) |-> IF i = dim + 1 THEN rank * PvCount(shape, dim, np)[i] ELSE 0]

\* step == 0: the test that guards DefineVariable and AddOperation
PvShouldDeclare(st) == st = 0

\* lines 238-246: every name of step 0 (in the map's order) when none is given
RECURSIVE NamesInOrder(_)
NamesInOrder(S) ==
  IF S = {} THEN <<>>
  ELSE LET first == CHOOSE a \in S : \A b \in S : a = b \/ (a = "u" /\ b = "v")
       IN <<first>> \o NamesInOrder(S \ {first})
varsToProcess ==
  IF targetVars = <<>> THEN NamesInOrder({a \in Names : allVars[a] # "none"})
  ELSE targetVars

PvName(w) == varsToProcess[vi[w]]
PvType(w) == allVars[PvName(w)]

\* lines 192-213: the compressor names main sets parameters for
PvKnownCompressor(c) == c \in {"CAESAR", "MGARD", "ZFP", "SZ"}

\* lines 191-236: the exit on an unknown compressor name (before any stream is
\* opened), the probe of step 0, and the exit when the file has no variable
CProbe(w) ==
  /\ tool = "compress" /\ pc[w] = "probe"
  /\ LET probed == <<Ev("Open", "P", 0, NoBox), Ev("BeginStep", "P", 1, NoBox),
                     Ev("EndStep", "P", 1, NoBox), Ev("Close", "P", 1, NoBox)>>
     IN IF ~PvKnownCompressor(compressor)
        THEN /\ pc' = [pc EXCEPT ![w] = "done"]
             /\ trace' = [trace EXCEPT ![w] = Append(@, Ev("Finalize", "", 0, NoBox))]
        ELSE IF \A v \in Names : allVars[v] = "none"
        THEN /\ pc' = [pc EXCEPT ![w] = "done"]
             /\ trace' = [trace EXCEPT ![w] = @ \o probed \o <<Ev("Finalize", "", 0, NoBox)>>]
        ELSE /\ pc' = [pc EXCEPT ![w] = "nextvar"]
             /\ trace' = [trace EXCEPT ![w] = @ \o probed]
  /\ UNCHANGED <<inputVars, fileVars, vi, step, analyzeVars, compressVars, fnVars>>

\* line 248 and lines 284-299: the end of the variable loop
CFinish(w) ==
  /\ tool = "compress" /\ pc[w] = "nextvar" /\ vi[w] > Len(varsToProcess)
  /\ pc' = [pc EXCEPT ![w] = "done"]
  /\ trace' = [trace EXCEPT ![w] = Append(@, Ev("Finalize", "", 0, NoBox))]
  /\ UNCHANGED <<inputVars, fileVars, vi, step, analyzeVars, compressVars, fnVars>>

\* lines 250-254: a name that step 0 of the file does not hold
CNotFound(w) ==
  /\ tool = "compress" /\ pc[w] = "nextvar" /\ vi[w] <= Len(varsToProcess)
  /\ PvType(w) = "none"
  /\ vi' = [vi EXCEPT ![w] = @ + 1]
  /\ UNCHANGED <<inputVars, fileVars, pc, step, analyzeVars, compressVars, fnVars, trace>>

\* lines 256-261: the worker enters the barrier before the variable
CEnterBarrier(w) ==
  /\ tool = "compress" /\ pc[w] = "nextvar" /\ vi[w] <= Len(varsToProcess)
  /\ PvType(w) # "none"
  /\ pc' = [pc EXCEPT ![w] = "barrier1"]
  /\ trace' = [trace EXCEPT ![w] = Append(@, Ev("Barrier", PvName(w), 1, NoBox))]
  /\ UNCHANGED <<inputVars, fileVars, vi, step, analyzeVars, compressVars, fnVars>>

\* line 261: MPI_Barrier completes; the reader opened after it sees this variable
\* of the input file
CBarrier1 ==
  /\ tool = "compress" /\ \A w \in Workers : pc[w] = "barrier1"
  /\ fileIn' = file[PvName(0)]
  /\ pc' = [w \in Workers |-> "dispatch"]
  /\ UNCHANGED <<inputVars, fileCmp, vi, step, analyzeVars, compressVars, fnVars, trace>>

\* lines 263-279 with 18-28: the dispatch on the type name; a supported one opens
\* the reader and the writer (Mode::Write starts the output file anew), another
\* one goes on to the barrier of line 281
CDispatch(w) ==
  /\ tool = "compress" /\ pc[w] = "dispatch"
  /\ IF PvSupported(PvType(w))
     THEN /\ pc' = [pc EXCEPT ![w] = "while"]
          /\ reader' = [reader EXCEPT ![w] = Engine0]
          /\ writer' = [writer EXCEPT ![w] = Engine0]
          /\ declared' = [declared EXCEPT ![w] = <<>>]
          /\ outFile' = [outFile EXCEPT ![w] = <<>>]
          /\ step' = [step EXCEPT ![w] = 0]
          /\ trace' = [trace EXCEPT ![w] = @ \o <<Ev("Open", "R", 0, NoBox),
                                                  Ev("Open", "W", 0, NoBox)>>]
     ELSE /\ pc' = [pc EXCEPT ![w] = "barrier2"]
          /\ trace' = [trace EXCEPT ![w] = Append(@, Ev("Barrier", PvName(w), 2, NoBox))]
          /\ UNCHANGED <<reader, writer, declared, outFile, step>>
  /\ UNCHANGED <<inputVars, fileVars, vi, analyzeVars, data, fnVars>>

\* line 29: the loop condition
CWhile(w) ==
  /\ tool = "compress" /\ pc[w] = "while"
  /\ LET ok == BeginStepOK(reader[w], nIn)
         rd == BeginStep(reader[w], nIn)
     IN /\ reader' = [reader EXCEPT ![w] = rd]
        /\ trace' = [trace EXCEPT ![w] =
             Append(@, Ev(IF ok THEN "BeginStep" ELSE "BeginStepEOS", "R", rd.pos, NoBox))]
        /\ pc' = [pc EXCEPT ![w] = IF ok THEN "body" ELSE "close"]
  /\ UNCHANGED <<inputVars, fileVars, vi, step, analyzeVars, writer, declared, data,
                 outFile, fnVars>>

\* what InquireVariable finds at the reader's current step
PvVarRead(w) == fileIn[reader[w].pos]

\* lines 31-38: the variable is missing at this step
CMissing(w) ==
  /\ tool = "compress" /\ pc[w] = "body"
  /\ ~PvVarRead(w).present
  /\ reader' = [reader EXCEPT ![w] = EndStep(@)]
  /\ trace' = [trace EXCEPT ![w] = Append(@, Ev("EndStep", "R", reader[w].pos, NoBox))]
  /\ pc' = [pc EXCEPT ![w] = "while"]
  /\ UNCHANGED <<inputVars, fileVars, vi, step, analyzeVars, writer, declared, data,
                 outFile, fnVars>>

\* lines 52-59: the decomposition axis is no axis of the shape
CInvalidAxis(w) ==
  /\ tool = "compress" /\ pc[w] = "body"
  /\ PvVarRead(w).present
  /\ PvInvalidAxis(PvVarRead(w).shape, decompDim)
  /\ reader' = [reader EXCEPT ![w] = EndStep(@)]
  /\ trace' = [trace EXCEPT ![w] = Append(@, Ev("EndStep", "R", reader[w].pos, NoBox))]
  /\ step' = [step EXCEPT ![w] = @ + 1]
  /\ pc' = [pc EXCEPT ![w] = "while"]
  /\ UNCHANGED <<inputVars, fileVars, vi, analyzeVars, writer, declared, data,
                 outFile, fnVars>>

\* writeIO.InquireVariable: the declarations of this name, in order
PvDeclarations(decl, name) == SelectSeq(decl, LAMBDA d : d.name = name)

\* what a read past the end of the vector may find in one element: the bits of 0,
\* or other bits (7 stands for every value that is not 0)
Garbage == {0, 7}
\* writer.Put(varWrite, data.data()): the blocks Put can take from the buffer for a
\* variable declared with `count`. Put copies Product(count) elements from the start
\* of the buffer; where the buffer is shorter, each element past its end is
\* whatever the memory holds
PvPutBlocks(buf, count) ==
  LET n == Product(count)
  IN IF n <= Len(buf)
     THEN {SubSeq(buf, 1, n)}
     ELSE {buf \o tail : tail \in [1 .. (n - Len(buf)) -> Garbage]}
\* an empty vector has no storage: data.data() is null, and Put of a block that is
\* not empty reads through it
PvPutReadsNull(buf, count) == Len(buf) = 0 /\ Product(count) > 0
\* what the read through the null pointer does to worker w: the process is killed
\* by the signal, or the library rejects the pointer and throws, which main catches
\* (lines 292-296). The library is the same on every rank: a worker ends as the
\* workers that ended before it did
PvNullPutOutcomes(w) ==
  {o \in {"killed", "failed"} : \A v \in Workers : pc[v] \in {"killed", "failed"} => pc[v] = o}

\* lines 61-120: decomposition, selection, Get, EndStep, the declaration at step 0,
\* and the writer's BeginStep, Put, EndStep. Put of a variable that InquireVariable
\* did not find throws: main catches it, finalizes and returns 1 (lines 292-296).
\* Put of a buffer shorter than the declared block reads past its end
CProcess(w) ==
  /\ tool = "compress" /\ pc[w] = "body"
  /\ PvVarRead(w).present
  /\ ~PvInvalidAxis(PvVarRead(w).shape, decompDim)
  /\ LET shape == PvVarRead(w).shape
         count == PvCount(shape, decompDim, size)
         start == PvStart(shape, decompDim, size, w)
         k == reader[w].pos
         buf == GetU(k, shape, start, count)
         decl == IF PvShouldDeclare(step[w])
                 THEN Append(declared[w], [name |-> PvName(w), shape |-> shape,
                                           start |-> start, count |-> count, at |-> k])
                 ELSE declared[w]
         found == PvDeclarations(decl, PvName(w))
         varWrite == found[1]
         read == <<Ev("SetSelection", "R", k, <<start, count>>),
                   Ev("Get", "R", k, <<start, count>>), Ev("EndStep", "R", k, NoBox)>>
         define == IF PvShouldDeclare(step[w])
                   THEN <<Ev("DefineVariable", "W", k, <<start, count>>)>> ELSE <<>>
     IN /\ data' = [data EXCEPT ![w] = buf]
        /\ reader' = [reader EXCEPT ![w] = EndStep(@)]
        /\ declared' = [declared EXCEPT ![w] = decl]
        /\ IF found # <<>> /\ PvPutReadsNull(buf, varWrite.count)
           THEN /\ writer' = [writer EXCEPT ![w] = [@ EXCEPT !.pos = @ + 1, !.inStep = TRUE]]
                /\ \E o \in PvNullPutOutcomes(w) :
                     /\ pc' = [pc EXCEPT ![w] = o]
                     /\ trace' = [trace EXCEPT ![w] = @ \o read \o define \o
                          <<Ev("BeginStep", "W", writer[w].pos + 1, NoBox)>> \o
                          (IF o = "killed"
                           THEN <<Ev("Put", "W", writer[w].pos + 1,
                                     <<varWrite.start, varWrite.count>>)>>
                           ELSE <<Ev("PutThrows", "W", writer[w].pos + 1, NoBox),
                                  Ev("Finalize", "", 1, NoBox)>>)]
                /\ UNCHANGED <<outFile, step>>
           ELSE IF found # <<>>
           THEN /\ writer' = [writer EXCEPT ![w] = [@ EXCEPT !.pos = @ + 1]]
                /\ \E put \in PvPutBlocks(buf, varWrite.count) :
                     outFile' = [outFile EXCEPT ![w] =
                       Append(@, [name |-> PvName(w), k |-> writer[w].pos + 1, from |-> k,
                                  start |-> varWrite.start, count |-> varWrite.count,
                                  buf |-> put])]
                /\ trace' = [trace EXCEPT ![w] = @ \o read \o define \o
                     <<Ev("BeginStep", "W", writer[w].pos + 1, NoBox),
                       Ev("Put", "W", writer[w].pos + 1, <<varWrite.start, varWrite.count>>),
                       Ev("EndStep", "W", writer[w].pos + 1, NoBox)>>]
                /\ step' = [step EXCEPT ![w] = @ + 1]
                /\ pc' = [pc EXCEPT ![w] = "while"]
           ELSE /\ writer' = [writer EXCEPT ![w] = [@ EXCEPT !.pos = @ + 1, !.inStep = TRUE]]
                /\ trace' = [trace EXCEPT ![w] = @ \o read \o define \o
                     <<Ev("BeginStep", "W", writer[w].pos + 1, NoBox),
                       Ev("PutThrows", "W", writer[w].pos + 1, NoBox),
                       Ev("Finalize", "", 1, NoBox)>>]
                /\ pc' = [pc EXCEPT ![w] = "failed"]
                /\ UNCHANGED <<outFile, step>>
  /\ UNCHANGED <<inputVars, fileVars, vi, analyzeVars, fnVars>>

\* lines 123-127 and 281: reader and writer are closed, the worker enters the barrier
CClose(w) ==
  /\ tool = "compress" /\ pc[w] = "close"
  /\ reader' = [reader EXCEPT ![w] = Close(@)]
  /\ writer' = [writer EXCEPT ![w] = Close(@)]
  /\ trace' = [trace EXCEPT ![w] = @ \o <<Ev("Close", "R", reader[w].pos, NoBox),
                                          Ev("Close", "W", writer[w].pos, NoBox),
                                          Ev("Barrier", PvName(w), 2, NoBox)>>]
  /\ pc' = [pc EXCEPT ![w] = "barrier2"]
  /\ UNCHANGED <<inputVars, fileVars, vi, step, analyzeVars, declared, data, outFile, fnVars>>

\* line 281: MPI_Barrier completes, the loop goes to the next name
CBarrier2 ==
  /\ tool = "compress" /\ \A w \in Workers : pc[w] = "barrier2"
  /\ pc' = [w \in Workers |-> "nextvar"]
  /\ vi' = [w \in Workers |-> vi[w] + 1]
  /\ UNCHANGED <<inputVars, fileVars, step, analyzeVars, compressVars, fnVars, trace>>

\* the state after MPI_Init and the parsing of the command line (lines 132-186)
InitCompress ==
  /\ tool = "compress"
  /\ size \in 1 .. MaxWorkers
  /\ decompDim \in DecompDims
  /\ targetVars \in SingleTargets \cup {<<>>}
  /\ allVars \in FileHeads
  /\ nIn \in 1 .. MaxSteps
  /\ nCmp = 0
  /\ file \in FilesOf(allVars, nIn, FALSE)
  /\ lateVars \in LateTypesOf(file, nIn, {"double"})
  /\ compressor \in Compressors
  /\ fileIn = <<>> /\ fileCmp = <<>>
  /\ pc = [w \in Workers |-> "probe"]
  /\ vi = [w \in Workers |-> 1]
  /\ step = [w \in Workers |-> 0]
  /\ IdleAnalyze /\ IdleCompress /\ IdleFn
  /\ trace = [w \in Workers |-> <<>>]

NextCompress ==
  \/ \E w \in Workers : CProbe(w)
  \/ \E w \in Workers : CFinish(w)
  \/ \E w \in Workers : CNotFound(w)
  \/ \E w \in Workers : CEnterBarrier(w)
  \/ CBarrier1
  \/ \E w \in Workers : CDispatch(w)
  \/ \E w \in Workers : CWhile(w)
  \/ \E w \in Workers : CMissing(w)
  \/ \E w \in Workers : CInvalidAxis(w)
  \/ \E w \in Workers : CProcess(w)
  \/ \E w \in Workers : CClose(w)
  \/ CBarrier2

SpecCompress == InitCompress /\ [][NextCompress]_vars


\* ============================================ the metrics phase on any buffers
\* the element values and the buffers handed to computeMetrics
Values == {1, 3}
RECURSIVE SeqsUpTo(_)
SeqsUpTo(n) ==
  IF n = 0 THEN {<<>>}
  ELSE SeqsUpTo(n - 1) \cup {Append(s, x) : s \in {t \in SeqsUpTo(n - 1) : Len(t) = n - 1},
                                             x \in Values}
MetricsGroups == {1, 2}

\* a group of workers at line 152, each with its two local buffers, which lines
\* 142-143 give the same length (localSize)
InitMetrics ==
  /\ tool = "metrics"
  /\ size \in MetricsGroups
  /\ decompDim = 0
  /\ targetVars = <<"u">>
  /\ allVars = [u |-> "double", v |-> "none"]
  /\ nIn = 1 /\ nCmp = 1
  /\ file = NoFile(nIn)
  /\ lateVars \in LateTypesOf(file, nIn, {"double"})
  /\ compressor = ""
  /\ fileIn = <<>> /\ fileCmp = <<>>
  /\ pc = [w \in Workers |-> "local"]
  /\ vi = [w \in Workers |-> 1]
  /\ step = [w \in Workers |-> 0]
  /\ successfulSteps = [w \in Workers |-> 0]
  /\ readerUncomp = [w \in Workers |-> [Engine0 EXCEPT !.pos = 1]]
  /\ readerComp = [w \in Workers |-> [Engine0 EXCEPT !.pos = 1]]
  /\ dataUncomp \in [Workers -> SeqsUpTo(MaxLen)]
  /\ dataComp \in [Workers -> SeqsUpTo(MaxLen)]
  /\ \A w \in Workers : Len(dataComp[w]) = Len(dataUncomp[w])
  /\ localSize = [w \in Workers |-> Len(dataUncomp[w])]
  /\ localMetrics = [w \in Workers |-> NoMetrics]
  /\ global = [w \in Workers |-> NoGlobal]
  /\ totalLinf = [w \in Workers |-> 0]
  /\ IdleCompress /\ IdleFn
  /\ trace = [w \in Workers |-> <<>>]

NextMetrics ==
  \/ \E w \in Workers : ALocal(w)
  \/ \E k \in 1 .. 4 : AAllreduce(k)

SpecMetrics == InitMetrics /\ [][NextMetrics]_vars

\* ================================================= the decomposition alone
MaxProcs == 4
PlanShapes == {<<n>> : n \in 1 .. MaxExtent} \cup {<<n, m>> : n, m \in 1 .. MaxExtent}

\* a shape, an axis of it and a worker count
InitPlan ==
  /\ tool = "plan"
  /\ \E s \in PlanShapes : \E a \in 0 .. (Len(s) - 1) :
       fnIn = [shape |-> s, axis |-> a]
  /\ size \in 1 .. MaxProcs
  /\ decompDim = fnIn.axis
  /\ fnOut = <<>>
  /\ targetVars = <<>>
  /\ allVars = [u |-> "none", v |-> "none"]
  /\ nIn = 0 /\ nCmp = 0
  /\ file = NoFile(nIn)
  /\ lateVars \in LateTypesOf(file, nIn, {"double"})
  /\ compressor = ""
  /\ fileIn = <<>> /\ fileCmp = <<>>
  /\ pc = [w \in Workers |-> "plan"]
  /\ vi = [w \in Workers |-> 1]
  /\ step = [w \in Workers |-> 0]
  /\ IdleAnalyze /\ IdleCompress
  /\ trace = [w \in Workers |-> <<>>]

\* the next worker computes its box, as lines 61-65 of compress_mpi.cpp and as
\* lines 130-134 of decompress_mpi.cpp do
PlanStep ==
  /\ tool = "plan" /\ Len(fnOut) < size
  /\ LET r == Len(fnOut)
     IN fnOut' = Append(fnOut,
          [pv |-> [start |-> PvStart(fnIn.shape, decompDim, size, r),
                   count |-> PvCount(fnIn.shape, decompDim, size)],
           av |-> [start |-> AvStart(fnIn.shape, decompDim, size, r),
                   count |-> AvCount(fnIn.shape, decompDim, size)]])
  /\ UNCHANGED <<inputVars, fileVars, pc, vi, step, analyzeVars, compressVars, fnIn, trace>>

NextPlan == PlanStep

SpecPlan == InitPlan /\ [][NextPlan]_vars

\* ================================================================ bin.cpp
MaxRank == 6
BinExtents == {1, 2, 3}
\* the shapes of rank n over BinExtents
RECURSIVE ShapesOfRank(_)
ShapesOfRank(n) ==
  IF n = 0 THEN {<<>>}
  ELSE {Append(s, x) : s \in ShapesOfRank(n - 1), x \in BinExtents}

\* BinReshape with the 1s pushed after the shape
BinReshapeAppend(shape) ==
  IF Len(shape) >= 5 THEN shape
  ELSE shape \o [i \in 1 .. (5 - Len(shape)) |-> 1]

\* lines 36-48 of convert_variable_to_bin: newShape
BinReshape(shape) ==
  IF Len(shape) >= 5 THEN shape
  ELSE [i \in 1 .. (5 - Len(shape)) |-> 1] \o shape

\* a variable of some shape is handed to convert_variable_to_bin
InitReshape ==
  /\ tool = "bin"
  /\ \E n \in 0 .. MaxRank : \E s \in ShapesOfRank(n) : fnIn = [shape |-> s]
  /\ fnOut = <<>>
  /\ size = 1
  /\ decompDim = 0
  /\ targetVars = <<"u">>
  /\ allVars = [u |-> "double", v |-> "none"]
  /\ nIn = 1 /\ nCmp = 0
  /\ file = NoFile(nIn)
  /\ lateVars \in LateTypesOf(file, nIn, {"double"})
  /\ compressor = ""
  /\ fileIn = <<>> /\ fileCmp = <<>>
  /\ pc = [w \in Workers |-> "convert"]
  /\ vi = [w \in Workers |-> 1]
  /\ step = [w \in Workers |-> 0]
  /\ IdleAnalyze /\ IdleCompress
  /\ trace = [w \in Workers |-> <<>>]

\* lines 20-48: totalSize and the reshaped shape
BinConvert ==
  /\ tool = "bin" /\ pc[0] = "convert"
  /\ fnOut' = <<[totalSize |-> Product(fnIn.shape), newShape |-> BinReshape(fnIn.shape)]>>
  /\ pc' = [pc EXCEPT ![0] = "converted"]
  /\ UNCHANGED <<inputVars, fileVars, vi, step, analyzeVars, compressVars, fnIn, trace>>

NextReshape == BinConvert
SpecReshape == InitReshape /\ [][NextReshape]_vars

\* ------------------------------------------------------------ bin.cpp, main
\* the requested variable (argv[2]) and its type name in the step that holds it
\* first (line 127)
BinVarName == targetVars[1]
BinType ==
  IF allVars[BinVarName] = "none" THEN lateVars[BinVarName] ELSE allVars[BinVarName]
\* the types a variable can have where it appears after step 0
BinLateTypes == {"double", "float", "uint32_t", "string"}
\* the type names main dispatches on
BinSupported(type) == type \in {"double", "float", "int32_t", "int", "int64_t"}
\* availableVars.find(varName) != availableVars.end() at the reader's current step
BinAvailable == file[BinVarName][reader[0].pos].present

\* lines 105-112: the reader is opened
BinOpen ==
  /\ tool = "bin" /\ pc[0] = "open"
  /\ reader' = [reader EXCEPT ![0] = Engine0]
  /\ step' = [step EXCEPT ![0] = 0]
  /\ trace' = [trace EXCEPT ![0] = Append(@, Ev("Open", "R", 0, NoBox))]
  /\ pc' = [pc EXCEPT ![0] = "while"]
  /\ UNCHANGED <<inputVars, fileVars, vi, analyzeVars, writer, declared, data, outFile,
                 fnVars>>

\* line 115: the loop condition; at the end of the stream variableFound is false
BinWhile ==
  /\ tool = "bin" /\ pc[0] = "while"
  /\ LET ok == BeginStepOK(reader[0], nIn)
         rd == BeginStep(reader[0], nIn)
     IN /\ reader' = [reader EXCEPT ![0] = rd]
        /\ trace' = [trace EXCEPT ![0] =
             Append(@, Ev(IF ok THEN "BeginStep" ELSE "BeginStepEOS", "R", rd.pos, NoBox))]
        /\ pc' = [pc EXCEPT ![0] = IF ok THEN "body" ELSE "notfound"]
  /\ UNCHANGED <<inputVars, fileVars, vi, step, analyzeVars, writer, declared, data,
                 outFile, fnVars>>

\* BinEndStepBreak without the call of reader.EndStep()
BinBreakOnly ==
  /\ UNCHANGED reader
  /\ pc' = [pc EXCEPT ![0] = "found"]

\* lines 143-145: variableFound = true; reader.EndStep(); break
BinEndStepBreak ==
  /\ reader' = [reader EXCEPT ![0] = EndStep(@)]
  /\ pc' = [pc EXCEPT ![0] = "found"]

\* lines 126-145: the step holds the variable: it is converted when its type is one
\* of the dispatch (lines 14-48 of convert_variable_to_bin), the step is ended and
\* the loop is left
BinFound ==
  /\ tool = "bin" /\ pc[0] = "body"
  /\ BinAvailable
  /\ LET k == reader[0].pos
         shape == file[BinVarName][k].shape
         whole == <<[i \in 1 .. Len(shape) |-> 0], shape>>
     IN IF BinSupported(BinType)
        THEN /\ fnOut' = Append(fnOut, [from |-> k, totalSize |-> Product(shape),
                                        newShape |-> BinReshape(shape)])
             /\ trace' = [trace EXCEPT ![0] = @ \o <<Ev("Get", "R", k, whole),
                                                     Ev("EndStep", "R", k, NoBox)>>]
        ELSE /\ UNCHANGED fnOut
             /\ trace' = [trace EXCEPT ![0] = Append(@, Ev("EndStep", "R", k, NoBox))]
  /\ BinEndStepBreak
  /\ UNCHANGED <<inputVars, fileVars, vi, step, analyzeVars, writer, declared, data,
                 outFile, fnIn>>

\* lines 148-149: the step does not hold the variable
BinNext ==
  /\ tool = "bin" /\ pc[0] = "body"
  /\ ~BinAvailable
  /\ reader' = [reader EXCEPT ![0] = EndStep(@)]
  /\ step' = [step EXCEPT ![0] = @ + 1]
  /\ trace' = [trace EXCEPT ![0] = Append(@, Ev("EndStep", "R", reader[0].pos, NoBox))]
  /\ pc' = [pc EXCEPT ![0] = "while"]
  /\ UNCHANGED <<inputVars, fileVars, vi, analyzeVars, writer, declared, data, outFile,
                 fnVars>>

\* lines 152-167: the reader is closed; return 1 when the variable was not found,
\* return 0 when it was
BinClose ==
  /\ tool = "bin" /\ pc[0] \in {"found", "notfound"}
  /\ reader' = [reader EXCEPT ![0] = Close(@)]
  /\ trace' = [trace EXCEPT ![0] = Append(@, Ev("Close", "R", reader[0].pos, NoBox))]
  /\ pc' = [pc EXCEPT ![0] = IF pc[0] = "found" THEN "return0" ELSE "return1"]
  /\ UNCHANGED <<inputVars, fileVars, vi, step, analyzeVars, writer, declared, data,
                 outFile, fnVars>>

\* the state after the parsing of the command line (lines 96-103)
InitBin ==
  /\ tool = "bin"
  /\ size = 1
  /\ decompDim = 0
  /\ \E a \in Names : targetVars = <<a>>
  /\ allVars \in FileHeads
  /\ nIn \in 0 .. MaxSteps
  /\ nCmp = 0
  /\ nIn = 0 => \A a \in Names : allVars[a] = "none"
  /\ file \in FilesOf(allVars, nIn, TRUE)
  /\ lateVars \in LateTypesOf(file, nIn, BinLateTypes)
  /\ compressor = ""
  /\ fileIn = <<>> /\ fileCmp = <<>>
  /\ pc = [w \in Workers |-> "open"]
  /\ vi = [w \in Workers |-> 1]
  /\ step = [w \in Workers |-> 0]
  /\ IdleAnalyze /\ IdleCompress /\ IdleFn
  /\ trace = [w \in Workers |-> <<>>]

NextBin == BinOpen \/ BinWhile \/ BinFound \/ BinNext \/ BinClose
SpecBin == InitBin /\ [][NextBin]_vars

\* ====================================================== the two MPI tools
InitTools == InitAnalyze \/ InitCompress
NextTools == NextAnalyze \/ NextCompress
SpecTools == InitTools /\ [][NextTools]_vars


\* ============================================== runs over several variables
\* the command lines: two names, one name, or none (compression tool: all variables)
MultiTargets == {<<"u", "v">>, <<"v">>, <<>>}
\* step 0 of the input file: an unsupported and a supported variable, two supported
\* ones, or one variable while the other one appears only at a later step
MultiHeads ==
  {[u |-> "string", v |-> "double"], [u |-> "double", v |-> "double"],
   [u |-> "double", v |-> "none"]}

\* the input file has one step, or two: the second is where a variable can appear
\* that step 0 does not hold
MultiStepCounts == {1, 2}

\* the state after MPI_Init and the parsing of the command line; the analysis tool
\* returns before MPI work when no name is given (decompress_mpi.cpp lines 244-249)
InitMulti ==
  /\ tool \in {"analyze", "compress"}
  /\ size \in 1 .. MaxWorkers
  /\ decompDim \in DecompDims
  /\ targetVars \in MultiTargets
  /\ tool = "analyze" => targetVars # <<>>
  /\ allVars \in MultiHeads
  /\ nIn \in MultiStepCounts
  /\ nCmp = (IF tool = "analyze" THEN 1 ELSE 0)
  /\ file \in FilesOf(allVars, nIn, TRUE)
  /\ lateVars \in LateTypesOf(file, nIn, {"double"})
  /\ compressor = (IF tool = "compress" THEN "ZFP" ELSE "")
  /\ fileIn = <<>> /\ fileCmp = <<>>
  /\ pc = [w \in Workers |-> "probe"]
  /\ vi = [w \in Workers |-> 1]
  /\ step = [w \in Workers |-> 0]
  /\ IdleAnalyze /\ IdleCompress /\ IdleFn
  /\ trace = [w \in Workers |-> <<>>]

NextMulti == NextAnalyze \/ NextCompress
SpecMulti == InitMulti /\ [][NextMulti]_vars

\* ================================================================ claims
EventsOf(w, ops) == SelectSeq(trace[w], LAMBDA e : e.op \in ops)
Finished(w) == pc[w] \in {"done", "failed", "killed"}
InCollective(w) == pc[w] \in {"barrier1", "barrier2", "ar1", "ar2", "ar3", "ar4"}

\* C1: no reader is closed while a step it began is still open: every stream whose
\* BeginStep succeeded in the last evaluation of the loop condition has received
\* its EndStep before Close.
C1_StepsEndedBeforeClose ==
  \A w \in Workers :
    /\ ~(readerUncomp[w].closed /\ readerUncomp[w].inStep)
    /\ ~(readerComp[w].closed /\ readerComp[w].inStep)

\* the collective calls of a worker, in order
CollectiveOps == {"Barrier", "BeginStep", "BeginStepEOS", "EndStep", "Allreduce"}
Collectives(w) ==
  LET es == EventsOf(w, CollectiveOps)
  IN [i \in 1 .. Len(es) |-> <<es[i].op, es[i].s, es[i].k>>]

\* C2: all workers issue the same collective operations in the same order: at any
\* moment the calls of one worker are a prefix of the calls of any other, no worker
\* is inside a barrier or an allreduce when another one has left the program, and
\* when all have left the program their calls are the same.
C2_SameCollectives ==
  LET calls == [w \in Workers |-> Collectives(w)]
  IN /\ \A a, b \in Workers :
          a < b => IsPrefix(calls[a], calls[b]) \/ IsPrefix(calls[b], calls[a])
     /\ (\E w \in Workers : InCollective(w)) => \A w \in Workers : ~Finished(w)
     /\ (\A w \in Workers : Finished(w)) => \A w \in Workers : calls[w] = calls[0]

\* two workers have analysed a step (four allreduce calls) and left the program
C2_Witness ==
  /\ tool = "analyze" /\ size = 2
  /\ \A w \in Workers : pc[w] = "done" /\ Len(EventsOf(w, {"Allreduce"})) >= 4

\* C3: once a worker has begun a writer step for a variable, the destination
\* schema of that variable has been declared exactly once.
C3_DeclaredOnceWhenWritten ==
  \A w \in Workers :
    (\E i \in 1 .. Len(trace[w]) : trace[w][i].op = "BeginStep" /\ trace[w][i].s = "W")
      => Len(declared[w]) = 1

\* the indices of the decomposition axis that a box owns
Owned(box) ==
  {i \in 0 .. (fnIn.shape[decompDim + 1] - 1) :
     box.start[decompDim + 1] <= i /\ i < box.start[decompDim + 1] + box.count[decompDim + 1]}
PlanDone == tool = "plan" /\ Len(fnOut) = size
AxisLength == fnIn.shape[decompDim + 1]
BaseExtent == AxisLength \div size
\* the boxes of all workers, of the compression tool and of the analysis tool
PlanBoxes == {[r \in 1 .. Len(fnOut) |-> fnOut[r].pv], [r \in 1 .. Len(fnOut) |-> fnOut[r].av]}

\* C4: truncating decomposition: worker r owns offset r*base and extent base on the
\* decomposition axis, offset 0 and the full extent on every other axis; every index
\* below P*base is owned by exactly one worker and exactly S[a] mod P indices are
\* owned by none.
C4_Truncating ==
  tool = "plan" =>
    \A boxes \in PlanBoxes :
      /\ \A r \in 1 .. Len(boxes) : \A i \in 1 .. Len(fnIn.shape) :
           /\ boxes[r].start[i] = (IF i = decompDim + 1 THEN (r - 1) * BaseExtent ELSE 0)
           /\ boxes[r].count[i] = (IF i = decompDim + 1 THEN BaseExtent ELSE fnIn.shape[i])
      /\ Len(boxes) = size =>
           /\ \A i \in 0 .. (size * BaseExtent - 1) :
                Cardinality({r \in 1 .. size : i \in Owned(boxes[r])}) = 1
           /\ Cardinality({i \in 0 .. (AxisLength - 1) :
                             \A r \in 1 .. size : i \notin Owned(boxes[r])})
                = AxisLength % size

\* several workers, a non-empty box each, and a remainder
C4_Witness == PlanDone /\ size >= 2 /\ BaseExtent > 0 /\ AxisLength % size # 0

\* C5: remainder-to-last decomposition: the last worker's extent is
\* S[a] - (S[a] div P)*(P-1) and the workers' ranges cover [0, S[a]) with no gap
\* and no overlap.
C5_RemainderToLast ==
  PlanDone =>
    \A boxes \in PlanBoxes :
      /\ boxes[size].count[decompDim + 1] = AxisLength - BaseExtent * (size - 1)
      /\ \A i \in 0 .. (AxisLength - 1) :
           Cardinality({r \in 1 .. size : i \in Owned(boxes[r])}) = 1

\* C6: no worker selects, reads, declares or writes a box whose extent on the
\* decomposition axis is 0.
C6_NoEmptyBox ==
  \A w \in Workers : \A i \in 1 .. Len(trace[w]) :
    trace[w][i].box # NoBox => trace[w][i].box[2][decompDim + 1] > 0

\* the variable is there at the step a worker is in and the axis is not one of its shape
C7_InvalidAxisAt(w) ==
  /\ pc[w] = "body"
  /\ IF tool = "analyze"
     THEN ~AvMissing(w) /\ decompDim >= Len(AvVarUncomp(w).shape)
     ELSE PvVarRead(w).present /\ decompDim >= Len(PvVarRead(w).shape)
\* what the step of such a worker does
C7_Skips(w) ==
  /\ pc'[w] = "while"
  /\ step'[w] = step[w] + 1
  /\ trace'[w] = trace[w] \o
       (IF tool = "analyze"
        THEN <<Ev("EndStep", "U", readerUncomp[w].pos, NoBox),
               Ev("EndStep", "C", readerComp[w].pos, NoBox)>>
        ELSE <<Ev("EndStep", "R", reader[w].pos, NoBox)>>)
  /\ ~readerUncomp'[w].inStep /\ ~readerComp'[w].inStep /\ ~reader'[w].inStep
  /\ UNCHANGED <<dataUncomp, dataComp, localSize, localMetrics, global, successfulSteps,
                 writer, declared, data, outFile>>

\* C7: a step in which the decomposition axis is >= the rank of the shape does no
\* selection, read, declaration, write or allreduce on any worker; every stream
\* begun in it receives EndStep, the step counter advances and the loop goes on
\* with its condition.
C7_InvalidAxisSkipsStep ==
  [][\A w \in Workers : (C7_InvalidAxisAt(w) /\ pc'[w] # pc[w]) => C7_Skips(w)]_vars

\* a worker is in the body of the step after one it skipped for its axis
C7_Witness ==
  \E w \in Workers :
    /\ pc[w] = "body" /\ step[w] = 1
    /\ Len(EventsOf(w, {"Get"})) = 0
    /\ Len(EventsOf(w, {"EndStep"})) >= 2

\* C8: every box lies inside the global shape: offset + extent <= shape on every axis.
C8_BoxInsideShape ==
  tool = "plan" =>
    \A boxes \in PlanBoxes : \A r \in 1 .. Len(boxes) : \A i \in 1 .. Len(fnIn.shape) :
      boxes[r].start[i] + boxes[r].count[i] <= fnIn.shape[i]

\* several workers, and the last box ends where the axis ends
C8_Witness ==
  /\ PlanDone /\ size >= 2 /\ BaseExtent > 0
  /\ \A boxes \in PlanBoxes :
       boxes[size].start[decompDim + 1] + boxes[size].count[decompDim + 1] = AxisLength

\* the local buffers of the workers 0 .. r at step k, one after the other
RECURSIVE UnionUncomp(_, _)
UnionUncomp(k, r) ==
  IF r < 0 THEN <<>>
  ELSE UnionUncomp(k, r - 1) \o
       GetU(k, fileIn[k].shape, AvStart(fileIn[k].shape, decompDim, size, r),
            AvCount(fileIn[k].shape, decompDim, size))
RECURSIVE UnionComp(_, _)
UnionComp(k, r) ==
  IF r < 0 THEN <<>>
  ELSE UnionComp(k, r - 1) \o
       GetC(fileCmp[k], k, fileIn[k].shape, AvStart(fileIn[k].shape, decompDim, size, r),
            AvCount(fileIn[k].shape, decompDim, size))

\* worker w has just left the combine of a step: it is back at the loop condition
\* and its readers are still at the step the results are of
AfterCombine(w) ==
  pc[w] = "while" /\ global[w].pos > 0 /\ global[w].pos = readerUncomp[w].pos

\* C10: after the combine of a step every worker holds the same global values: the
\* sums, the maximum and the count of the union of all workers' local buffers of
\* that step.
C10_GlobalOfUnion ==
  tool = "analyze" =>
    \A w \in Workers :
      AfterCombine(w) =>
        LET k == global[w].pos
            O == UnionUncomp(k, size - 1)
            C == UnionComp(k, size - 1)
        IN /\ global[w].globalSumSquaredError
                = SumSeq([i \in 1 .. Len(O) |-> (O[i] - C[i]) * (O[i] - C[i])])
           /\ global[w].globalSumSquaredOriginal = SumSeq([i \in 1 .. Len(O) |-> O[i] * O[i]])
           /\ global[w].globalMaxError = MaxSeq([i \in 1 .. Len(O) |-> Abs(O[i] - C[i])])
           /\ global[w].globalElements = Len(O)

\* two workers with errors in both local buffers have combined the second step of
\* the files
C10_Witness ==
  /\ tool = "analyze" /\ size = 2
  /\ \A w \in Workers :
       /\ AfterCombine(w) /\ global[w].pos = 2 /\ successfulSteps[w] = 2
       /\ localMetrics[w].linf > 0


\* every worker has just left the combine of a step and holds that step's buffers
AllAfterCombine ==
  \A w \in Workers :
    pc[w] = "while" /\ global[w].pos > 0 /\ global[w].pos = readerUncomp[w].pos
\* the comparison buffer equals the original one on every worker, and one is not empty
IdenticalBuffers ==
  /\ \A w \in Workers : dataComp[w] = dataUncomp[w]
  /\ \E w \in Workers : dataUncomp[w] # <<>>

\* C11: when the comparison buffer is element-wise identical to a non-empty original
\* on every worker, the global NRMSE of the step is exactly zero (a zero numerator
\* over a non-zero denominator) and the global maximum error is zero.
C11_IdenticalGivesZero ==
  (AllAfterCombine /\ IdenticalBuffers) =>
    \A w \in Workers :
      /\ global[w].globalNRMSE2.num = 0 /\ global[w].globalNRMSE2.den # 0
      /\ global[w].globalMaxError = 0

\* two workers have combined a step of identical buffers that are not all zero
C11_Witness ==
  /\ tool = "analyze" /\ size = 2 /\ AllAfterCombine /\ IdenticalBuffers
  /\ \A w \in Workers : dataUncomp[w] # <<>>
  /\ global[0].globalSumSquaredOriginal > 0

\* the record carries a flag that marks its compression ratio as an estimate
Estimated(m) == "estimated" \in DOMAIN m /\ m.estimated
\* the compressed byte size of the record is the fallback: half the original size
UsesFallback(m) == m.compressedBytes = m.originalBytes \div 2

\* C12: a compression ratio that was derived from the fallback originalBytes / 2 is
\* marked as an estimate, in the local result of a worker and in the global values
\* of a step.
C12_FallbackFlagged ==
  \A w \in Workers :
    /\ (pc[w] \in {"ar1", "ar2", "ar3", "ar4"} /\ UsesFallback(localMetrics[w]))
         => Estimated(localMetrics[w])
    /\ (global[w].pos > 0
          /\ global[w].globalCompressionRatio.den
               = global[w].globalCompressionRatio.num \div 2)
         => Estimated(global[w])

\* C13: the global values of every analysed step include a PSNR, and it is a finite
\* value (a quotient with a non-zero denominator) when the global squared error is 0.
C13_PsnrReported ==
  \A w \in Workers :
    global[w].pos > 0 =>
      /\ "psnr" \in DOMAIN global[w]
      /\ global[w].globalSumSquaredError = 0 => global[w].psnr.den # 0

\* the names main's loop goes through
ToProcess == IF tool = "compress" THEN varsToProcess ELSE targetVars
\* the names of the list that step 0 holds with a type tag outside the supported set
UnsupportedNames ==
  {a \in Names : allVars[a] = "string" /\ \E i \in 1 .. Len(ToProcess) : ToProcess[i] = a}
\* the names of the list that step 0 holds with the tag "double"
SupportedNames ==
  {a \in Names : allVars[a] = "double" /\ \E i \in 1 .. Len(ToProcess) : ToProcess[i] = a}
\* the positions of worker w's trace where it enters the barrier before name a
BarrierBefore(w, a) ==
  {i \in 1 .. Len(trace[w]) : trace[w][i] = Ev("Barrier", a, 1, NoBox)}

\* C14: a variable with an unsupported type tag is skipped without aborting: after
\* the barrier before it a worker issues nothing but the barrier after it (no stream
\* is opened, no step begun), a worker does not leave the program at these
\* barriers, and when a worker has ended the run it has passed both barriers of
\* every such variable and has opened the streams of every supported variable of
\* the list.
C14_UnsupportedSkipped ==
  \A w \in Workers :
    /\ \A a \in UnsupportedNames : \A i \in BarrierBefore(w, a) :
         i < Len(trace[w]) => trace[w][i + 1] = Ev("Barrier", a, 2, NoBox)
    /\ \A a \in UnsupportedNames :
         (trace[w] # <<>> /\ trace[w][Len(trace[w])].op = "Barrier"
            /\ trace[w][Len(trace[w])].s = a) => ~Finished(w)
    /\ (pc[w] = "done" /\ UnsupportedNames # {}) =>
         /\ \A a \in UnsupportedNames : BarrierBefore(w, a) # {}
         /\ \A a \in SupportedNames : \E i \in BarrierBefore(w, a) :
              trace[w][i + 1].op = "Open"

\* two workers have left a run that skipped an unsupported variable and then read a
\* supported one
C14_Witness ==
  /\ size = 2 /\ UnsupportedNames = {"u"} /\ SupportedNames = {"v"}
  /\ \A w \in Workers :
       /\ pc[w] = "done"
       /\ EventsOf(w, {"Get"}) # <<>>

\* the caller's filter: every name when no name is given
InFilter(a) == targetVars = <<>> \/ \E i \in 1 .. Len(targetVars) : targetVars[i] = a
\* worker w has read name a at step k: a Get at step k in the pass of main's loop
\* over a (between the barrier before a and the barrier after it)
Processed(w, a, k) ==
  \E i \in BarrierBefore(w, a) : \E j \in (i + 1) .. Len(trace[w]) :
    /\ trace[w][j].op = "Get" /\ trace[w][j].s \in {"R", "U"} /\ trace[w][j].k = k
    /\ \A m \in i .. j : trace[w][m] # Ev("Barrier", a, 2, NoBox)
\* name a is in the input file at step k with a shape the decomposition axis fits
Readable(a, k) == file[a][k].present /\ decompDim < Len(file[a][k].shape)

\* C15: when a worker has gone through the run, what it processed at a step is what
\* the input holds at that step within the filter: it processed no name outside of
\* that, and (compression tool, supported type, valid axis) every name inside.
C15_ProcessedIsPresentInFilter ==
  \A w \in Workers : pc[w] = "done" =>
    \A a \in Names : \A k \in 1 .. nIn :
      /\ Processed(w, a, k) => (file[a][k].present /\ InFilter(a))
      /\ (tool = "compress" /\ Readable(a, k) /\ InFilter(a) /\ a \notin UnsupportedNames)
           => Processed(w, a, k)

\* the declarations worker w made in the pass over name a
DeclaredIn(w, a) ==
  {j \in 1 .. Len(trace[w]) :
     /\ trace[w][j].op = "DefineVariable"
     /\ \E i \in BarrierBefore(w, a) :
          i < j /\ \A m \in i .. j : trace[w][m] # Ev("Barrier", a, 2, NoBox)}

\* C16: a variable of the filter that step 0 of the input does not hold and that
\* appears at a later step has, when a worker of the compression tool has gone
\* through the run, been declared exactly once and been processed at every step
\* that holds it.
C16_LateVariableProcessed ==
  \A w \in Workers : (tool = "compress" /\ pc[w] = "done") =>
    \A a \in Names :
      (InFilter(a) /\ ~file[a][1].present /\ \E k \in 1 .. nIn : Readable(a, k)) =>
        /\ Cardinality(DeclaredIn(w, a)) = 1
        /\ \A k \in 1 .. nIn : Readable(a, k) => Processed(w, a, k)

\* C17: the converter reshapes to 5 dimensions by prepending 1s: for rank n <= 5 the
\* new shape has 5 entries, the first 5-n are 1 and the last n are the original
\* shape in order; for n >= 5 the shape is unchanged; the element count is kept.
C17_ReshapeTo5D ==
  (tool = "bin" /\ fnOut # <<>>) =>
    LET shape == fnIn.shape
        n == Len(shape)
        new == fnOut[1].newShape
    IN /\ n <= 5 =>
            /\ Len(new) = 5
            /\ \A i \in 1 .. (5 - n) : new[i] = 1
            /\ \A i \in 1 .. n : new[5 - n + i] = shape[i]
       /\ n >= 5 => new = shape
       /\ Product(new) = Product(shape)
       /\ fnOut[1].totalSize = Product(new)

\* a variable of rank 3 with more than one element has been reshaped
C17_Witness ==
  /\ tool = "bin" /\ fnOut # <<>>
  /\ Len(fnIn.shape) = 3 /\ fnIn.shape[1] > 1 /\ fnOut[1].totalSize > 1

\* the position of the last Get of worker w before position j of its trace (0: none)
LastGetBefore(w, j) ==
  LET gets == {g \in 1 .. (j - 1) : trace[w][g].op = "Get"}
  IN IF gets = {} THEN 0 ELSE CHOOSE g \in gets : \A h \in gets : h <= g

\* C18: the buffer handed to the writer fits the box it is written against: the box
\* of every Put is the box of the Get that filled the buffer, and the length of
\* the buffer (the product of the extents read) is the product of the extents it
\* is written with.
C18_PutBoxIsReadBox ==
  \A w \in Workers :
    /\ \A j \in 1 .. Len(trace[w]) :
         trace[w][j].op = "Put" =>
           /\ LastGetBefore(w, j) > 0
           /\ trace[w][j].box = trace[w][LastGetBefore(w, j)].box
           /\ Product(trace[w][LastGetBefore(w, j)].box[2]) = Product(trace[w][j].box[2])

\* the names that a block of worker w's destination output belongs to
NamesWritten(w) == {outFile[w][b].name : b \in 1 .. Len(outFile[w])}

\* C19: when a worker of the compression tool has gone through the run, the
\* destination holds written steps of every variable it put, not only of the last.
C19_EarlierOutputKept ==
  \A w \in Workers : (tool = "compress" /\ pc[w] = "done") =>
    \A a \in Names :
      (\E k \in 1 .. nIn : Processed(w, a, k)) => a \in NamesWritten(w)

\* C20: the divisors of the derived metrics are not zero: the compressed byte count
\* of the local compression ratio of a worker in the combine, and the global element
\* count and the global compressed byte count of every combined step.
C20_DivisorsNonZero ==
  \A w \in Workers :
    /\ (tool = "analyze" /\ pc[w] \in {"ar1", "ar2", "ar3", "ar4"})
         => localMetrics[w].compressionRatio.den > 0
    /\ (tool = "analyze" /\ global[w].pos > 0)
         => /\ global[w].globalElements > 0
            /\ global[w].globalCompressionRatio.den > 0

\* the position of the last Get on stream s before position j of w's trace (0: none)
LastGetOf(w, s, j) ==
  LET gets == {g \in 1 .. (j - 1) : trace[w][g].op = "Get" /\ trace[w][g].s = s}
  IN IF gets = {} THEN 0 ELSE CHOOSE g \in gets : \A h \in gets : h <= g
\* before position j, stream s has got a buffer and has ended the step of that Get
ReadCompleted(w, s, j) ==
  LET g == LastGetOf(w, s, j)
  IN /\ g > 0
     /\ \E e \in (g + 1) .. (j - 1) : trace[w][e] = Ev("EndStep", s, trace[w][g].k, NoBox)

\* C21: a step's buffer is consumed only after the reads that fill it are complete:
\* a Put comes after the EndStep of the reader's step whose Get filled the buffer,
\* the local metrics (which start the first allreduce) come after the EndStep of
\* both readers, whose steps are closed while the metrics are computed; and a
\* writer step is BeginStep, one Put, EndStep.
C21_ConsumedAfterEndStep ==
  \A w \in Workers :
    /\ \A j \in 1 .. Len(trace[w]) :
         LET e == trace[w][j]
         IN /\ e.op \in {"Put", "PutThrows"} =>
                 /\ ReadCompleted(w, "R", j)
                 /\ j > 1 /\ trace[w][j - 1] = Ev("BeginStep", "W", e.k, NoBox)
            /\ (e.op = "BeginStep" /\ e.s = "W" /\ j < Len(trace[w])) =>
                 trace[w][j + 1].op \in {"Put", "PutThrows"}
            /\ (e.op = "EndStep" /\ e.s = "W") =>
                 /\ j > 2 /\ trace[w][j - 1].op = "Put" /\ trace[w][j - 1].k = e.k
                 /\ trace[w][j - 2] = Ev("BeginStep", "W", e.k, NoBox)
            /\ (e.op = "Allreduce" /\ e.s = "sumSquaredError" /\ tool = "analyze") =>
                 ReadCompleted(w, "U", j) /\ ReadCompleted(w, "C", j)
    /\ (tool = "analyze" /\ pc[w] = "local") =>
         ~readerUncomp[w].inStep /\ ~readerComp[w].inStep
    /\ (tool = "compress" /\ pc[w] = "while" /\ outFile[w] # <<>>) => ~reader[w].inStep

\* two workers of the compression tool have each written two steps
C21_Witness ==
  /\ tool = "compress" /\ size = 2
  /\ \A w \in Workers : Len(EventsOf(w, {"Put"})) >= 2

\* how often worker w has issued op on stream s
CountOf(w, op, s) ==
  Cardinality({j \in 1 .. Len(trace[w]) : trace[w][j].op = op /\ trace[w][j].s = s})
StreamNames == {"P", "U", "C", "R", "W"}

\* C22: a worker that has left the program has closed every stream it opened, each
\* exactly once, and has issued the finalisation once.
C22_ClosedOnceAndFinalized ==
  \A w \in Workers : Finished(w) =>
    /\ \A s \in StreamNames : CountOf(w, "Close", s) = CountOf(w, "Open", s)
    /\ CountOf(w, "Finalize", "") = 1

\* the step loops end and every worker leaves the program, when a worker that can
\* take a step (alone, or with the others in a collective) takes one
SpecToolsFair == SpecTools /\ WF_vars(NextTools)
AllFinish == <>(\A w \in Workers : Finished(w))

\* C23: at the end of processVariable the number of timesteps it reports as
\* compressed (its step counter) is the number of steps the writer has written.
C23_ReportedIsWritten ==
  \A w \in Workers :
    (tool = "compress" /\ pc[w] = "close") =>
      /\ step[w] = writer[w].pos
      /\ step[w] = Len(outFile[w])

\* the steps of the input file that hold the requested variable
BinPresentSteps == {k \in 1 .. nIn : file[BinVarName][k].present}
BinReturned == pc[0] \in {"return0", "return1"}

\* C24: the binary converter converts the requested variable from the first step
\* that holds it and from no later step; every successful BeginStep has exactly one
\* EndStep before the reader is closed; it returns 1 exactly when no step holds the
\* variable.
C24_FirstStepOnlyAndExitCode ==
  tool = "bin" =>
    /\ Len(fnOut) <= 1
    /\ \A i \in 1 .. Len(fnOut) :
         /\ fnOut[i].from \in BinPresentSteps
         /\ \A k \in BinPresentSteps : fnOut[i].from <= k
    /\ reader[0].pos <= nIn
    /\ \A k \in BinPresentSteps : reader[0].pos <= k \/ fnOut = <<>>
    /\ \A k \in 1 .. reader[0].pos - 1 : k \notin BinPresentSteps
    /\ reader[0].closed =>
         /\ ~reader[0].inStep
         /\ CountOf(0, "EndStep", "R") = CountOf(0, "BeginStep", "R")
         /\ CountOf(0, "BeginStep", "R") = reader[0].pos
    /\ CountOf(0, "EndStep", "R") <= CountOf(0, "BeginStep", "R")
    /\ CountOf(0, "BeginStep", "R") <= CountOf(0, "EndStep", "R") + 1
    /\ BinReturned =>
         /\ reader[0].closed /\ CountOf(0, "Close", "R") = 1
         /\ (pc[0] = "return1") <=> (BinPresentSteps = {})
         /\ (BinPresentSteps # {} /\ BinSupported(BinType)) => Len(fnOut) = 1

\* the variable first appears at step 2 of the file: the
\* converter has skipped step 1, converted step 2 and returned 0
C24_Witness ==
  /\ tool = "bin" /\ pc[0] = "return0"
  /\ nIn >= 2
  /\ 1 \notin BinPresentSteps
  /\ Len(fnOut) = 1 /\ fnOut[1].from = 2
  /\ CountOf(0, "EndStep", "R") = 2

\* the variable is in no step: the converter has ended every step and returned 1
C24_WitnessNotFound ==
  /\ tool = "bin" /\ pc[0] = "return1"
  /\ nIn >= 2
  /\ CountOf(0, "EndStep", "R") = nIn
====
